---- MODULE Spec2Model ----
(***************************************************************************)
(* Pay-per-crawl testbed: the crawler's signature composer and payment     *)
(* decision (crawler/crawler/index.ts), the content server's signature     *)
(* verifier, middleware, content routes and settlement endpoint            *)
(* (server/src/index.ts).                                                  *)
(*                                                                         *)
(* Strings are modelled structurally: a URL is the record of its written   *)
(* parts, a header value is a record of its tokens, a JWT is the record of *)
(* its protected header, payload and the (key, header, payload) the        *)
(* signature was computed over.  Two strings are equal exactly when their  *)
(* records are.                                                            *)
(***************************************************************************)
EXTENDS Integers, Sequences, FiniteSets, TLC

\* ------------------------------------------------------------------ bounds
\* Clock advances per behaviour.
MaxTicks == 2
\* Settlements the server log keeps.
MaxSettle == 2

\* ------------------------------------------------------- program constants
\* setExpirationTime(now + 300)
ValidityWindow == 300
\* Math.floor(Date.now() / 1000)
MsPerSec == 1000
\* const maxPayment = 50
maxPayment == 50

\* ------------------------------------------------------------- key material
\* private.key / public.key pairs; the deployment shares the pair "K".
Keys == {"K", "K2"}
PublicOf(k) == [pub |-> k]
\* Crawler.constructor: this.privateKey, this.keyId, this.serverUrl
CrawlerKey == "K"
CrawlerKeyId == "my-key-id"
\* AuthVerifier.constructor: this.publicKey (the single static key)
ServerPublicKey == PublicOf("K")

\* ------------------------------------------------------------------ strings
\* A text token: q = still wrapped in double quotes, isnum = made of digits.
Str(s) == [q |-> FALSE, isnum |-> FALSE, num |-> 0, txt |-> s]
Num(n) == [q |-> FALSE, isnum |-> TRUE, num |-> n, txt |-> ""]
Quoted(t) == [t EXCEPT !.q = TRUE]
Undefined == Str("<undefined>")
\* null, as returned by extractHeader
Null == [kind |-> "null"]
Text(s) == [kind |-> "text", txt |-> s]
\* !value of a string-or-null
Falsy(v) == v.kind = "null" \/ (v.kind = "text" /\ v.txt = "")

\* a number-or-undefined: undefined, NaN, or the integer n
NoAmount == [def |-> FALSE, nan |-> FALSE, n |-> 0]
NaN == [def |-> TRUE, nan |-> TRUE, n |-> 0]
Amt(n) == [def |-> TRUE, nan |-> FALSE, n |-> n]

Upper(m) ==
  CASE m = "get" -> "GET"
    [] m = "post" -> "POST"
    [] OTHER -> m

Lower(n) ==
  CASE n = "Signature" -> "signature"
    [] n = "Signature-Input" -> "signature-input"
    [] n = "SIGNATURE" -> "signature"
    [] n = "SIGNATURE-INPUT" -> "signature-input"
    [] n = "Content-Type" -> "content-type"
    [] n = "Created" -> "created"
    [] n = "Payment-Required" -> "payment-required"
    [] n = "Payment-Required-Amount" -> "payment-required-amount"
    [] n = "Payment-Required-Currency" -> "payment-required-currency"
    [] n = "Payment-Required-Description" -> "payment-required-description"
    [] OTHER -> n

\* --------------------------------------------------------------------- URLs
\* A written URL: port 0 = no port written, path "" = no path written.
Url(scheme, hostname, port, path, search) ==
  [kind |-> "url", scheme |-> scheme, hostname |-> hostname, port |-> port,
   path |-> path, search |-> search]
\* A string new URL() rejects.
BadUrl == [kind |-> "junk", scheme |-> "", hostname |-> "", port |-> 0,
           path |-> "not a url", search |-> ""]

DefaultPort(scheme) == IF scheme = "http" THEN 80 ELSE 443

\* new URL(url): throws on an unparsable string; drops the scheme's default
\* port; an empty path reads "/".
URLThrows(u) == u.kind # "url"
URLParse(u) ==
  [protocol |-> u.scheme,
   hostname |-> u.hostname,
   port |-> IF u.port = DefaultPort(u.scheme) THEN 0 ELSE u.port,
   pathname |-> IF u.path = "" THEN "/" ELSE u.path,
   search |-> u.search]
\* urlObj.host: hostname, then ":port" when the parsed port is not empty
UrlHost(p) == [hostname |-> p.hostname, port |-> p.port]
\* `${pathname}${search}`
RequestTarget(p) == [pathname |-> p.pathname, search |-> p.search]

\* ---------------------------------------------------------------- the JWT
\* new SignJWT(claims).setProtectedHeader(..).setIssuedAt(..)
\*   .setExpirationTime(..).sign(key)
SignJWT(claims, alg, kid, iat, exp, key) ==
  LET header == [alg |-> alg, kid |-> kid]
      payload == [claims |-> claims, iat |-> iat, exp |-> exp]
  IN [kind |-> "jwt", header |-> header, payload |-> payload,
      sig |-> [key |-> key, header |-> header, payload |-> payload]]

\* Buffer.from(jwt).toString('base64') and back
Base64(s) == [kind |-> "b64", of |-> s]
Base64Decode(b) == IF b.kind = "b64" THEN b.of ELSE [kind |-> "garbage"]

\* jwtVerify(jwt, keyLike): compact JWS of three parts, the signature made by
\* the private key of keyLike over this header and payload, exp in the future.
jwtVerify(jwt, keyLike, nowSec) ==
  /\ jwt.kind = "jwt"
  /\ PublicOf(jwt.sig.key) = keyLike
  /\ jwt.sig.header = jwt.header
  /\ jwt.sig.payload = jwt.payload
  /\ jwt.payload.exp > nowSec

\* String(verifyError) of the error jwtVerify rejects with: the compact
\* form is checked first, then the signature, then the exp claim
jwtVerifyError(jwt, keyLike, nowSec) ==
  IF jwt.kind # "jwt" THEN "JWSInvalid: Invalid Compact JWS"
  ELSE IF ~(/\ PublicOf(jwt.sig.key) = keyLike
            /\ jwt.sig.header = jwt.header
            /\ jwt.sig.payload = jwt.payload)
    THEN "JWSSignatureVerificationFailed: signature verification failed"
  ELSE IF ~(jwt.payload.exp > nowSec)
    THEN "JWTExpired: \"exp\" claim timestamp check failed"
  ELSE ""

\* ------------------------------------------------ Crawler.createSignature
Components ==
  <<"@method", "@target-uri", "@authority", "@scheme", "@request-target",
    "created">>

\* the label=(components);params string
Declaration(label, comps, params) ==
  [kind |-> "decl", label |-> label, comps |-> comps, params |-> params]
Param(name, val) == [name |-> name, val |-> val]
\* the label=:artifact: string
SignatureValue(label, art) == [kind |-> "sigval", label |-> label, art |-> art]

createSignatureThrows(url) == URLThrows(url)

createSignature(privateKey, keyId, method, url, nowMs) ==
  LET now == nowMs \div MsPerSec
      urlObj == URLParse(url)
      jwt == SignJWT([method |-> Upper(method),
                      targetUri |-> url,
                      authority |-> UrlHost(urlObj),
                      scheme |-> urlObj.protocol,
                      requestTarget |-> RequestTarget(urlObj),
                      created |-> now],
                     "Ed25519", keyId, now, now + ValidityWindow, privateKey)
  IN [signature |-> SignatureValue("sig1", Base64(jwt)),
      signatureInput |->
        Declaration("sig1", Components,
                    <<Param("created", Num(now)),
                      Param("keyid", Quoted(Str(keyId)))>>)]

\* ------------------------------------------------------------ AuthVerifier
\* A header map: a sequence of [name, value] in insertion order.
Header(name, value) == [name |-> name, value |-> value]

\* (mutant) the header name is compared as written
RECURSIVE extractHeader_CaseSensitive(_, _)
extractHeader_CaseSensitive(headers, name) ==
  IF headers = <<>> THEN Null
  ELSE IF Head(headers).name = name THEN Head(headers).value
  ELSE extractHeader_CaseSensitive(Tail(headers), name)

RECURSIVE extractHeader(_, _)
extractHeader(headers, name) ==
  IF headers = <<>> THEN Null
  ELSE IF Lower(Head(headers).name) = Lower(name) THEN Head(headers).value
  ELSE extractHeader(Tail(headers), name)

\* parseSignatureInput: the regex needs label=(non-empty list)rest
parseSignatureInputThrows(signatureInput) ==
  \/ signatureInput.kind # "decl"
  \/ signatureInput.comps = <<>>

\* (mutant) the quotes of a parameter value are kept
StripQuotes_Kept(val) == val

\* the quote removal of a parameter value
StripQuotes(val) == [val EXCEPT !.q = FALSE]

\* parameters[name]: the last ;name=value of the string, quotes removed
RECURSIVE ParamLookup(_, _)
ParamLookup(params, name) ==
  IF params = <<>> THEN Undefined
  ELSE LET last == params[Len(params)]
       IN IF last.name = name THEN StripQuotes(last.val)
          ELSE ParamLookup(SubSeq(params, 1, Len(params) - 1), name)

parseSignatureInput(signatureInput) ==
  [key |-> signatureInput.label,
   components |-> signatureInput.comps,
   parameters |-> [n \in {"created", "expires", "keyid"} |->
                     ParamLookup(signatureInput.params, n)]]

\* parseSignature: label=:artifact:
parseSignatureThrows(signature) == signature.kind # "sigval"
parseSignature(signature) == signature.art

\* if (parameters.expires): present and not the empty string
Truthy(val) == val # Undefined /\ (val.isnum \/ val.txt # "")
\* parseInt: digits not wrapped in quotes, else NaN
IsNaN(val) == ~val.isnum \/ val.q
ParseInt(val) == val.num

\* One line of the canonical base the verifier rebuilds.
ComponentValue(request, component) ==
  CASE component = "@method" -> [t |-> "method", v |-> Upper(request.method)]
    [] component = "@target-uri" -> [t |-> "url", v |-> request.url]
    [] component = "@authority" ->
         LET url == URLParse(request.url)
             port == url.port
         IN [t |-> "host",
             v |-> [hostname |-> url.hostname,
                    port |-> IF port # 0 /\ port \notin {80, 443}
                             THEN port ELSE 0]]
    [] component = "@scheme" ->
         [t |-> "scheme", v |-> URLParse(request.url).protocol]
    [] component = "@request-target" ->
         [t |-> "target", v |-> RequestTarget(URLParse(request.url))]
    [] OTHER ->
         LET h == extractHeader(request.headers, component)
         IN [t |-> "header", v |-> IF Falsy(h) THEN Text("") ELSE h]

buildSignedDataThrows(request, components) ==
  /\ URLThrows(request.url)
  /\ \E i \in 1..Len(components) :
       components[i] \in {"@authority", "@scheme", "@request-target"}

buildSignedData(request, components, signatureInputString) ==
  [i \in 1..Len(components) |->
     [name |-> Lower(components[i]),
      value |-> ComponentValue(request, components[i])]]
  \o <<[name |-> "@signature-params",
        value |-> [t |-> "decl", v |-> signatureInputString]]>>

\* error: the fixed text of the message; detail: the ${error} appended to it
InvalidBecause(error, detail) ==
  [isValid |-> FALSE, error |-> error, detail |-> detail,
   keyId |-> Undefined, algorithm |-> "<undefined>"]
Invalid(error) == InvalidBecause(error, "")
Valid(keyId, algorithm) ==
  [isValid |-> TRUE, error |-> "<undefined>", detail |-> "",
   keyId |-> keyId, algorithm |-> algorithm]
\* result.error as the string the caller reads
ErrorMessage(result) ==
  IF result.detail = "" THEN result.error
  ELSE result.error \o ": " \o result.detail

ErrInputMissing == "Signature-Input header not found"
ErrSignatureMissing == "Signature header not found"
ErrExpired == "Signature expired"
ErrVerificationFailed == "Signature verification failed"
ErrVerificationError == "Verification error"

\* (mutant) the second named by expires is already too late
ExpiredByParam_AtEquality(parameters, nowMs) ==
  /\ Truthy(parameters["expires"])
  /\ ~IsNaN(parameters["expires"])
  /\ ParseInt(parameters["expires"]) <= nowMs \div MsPerSec

\* the expiry check of verifyRequest
ExpiredByParam(parameters, nowMs) ==
  /\ Truthy(parameters["expires"])
  /\ ~IsNaN(parameters["expires"])
  /\ ParseInt(parameters["expires"]) < nowMs \div MsPerSec

\* the try block around jwtVerify
VerifyArtifact(signatureValue, signedData, publicKey, nowMs) ==
  jwtVerify(Base64Decode(signatureValue), publicKey, nowMs \div MsPerSec)

\* (mutant) the token is checked before the expires parameter
VerifyHeaders_TokenFirst(request, signatureInput, signature, nowMs) ==
  IF parseSignatureInputThrows(signatureInput)
    THEN InvalidBecause(ErrVerificationError,
                        "Error: Invalid Signature-Input format")
  ELSE IF parseSignatureThrows(signature)
    THEN InvalidBecause(ErrVerificationError,
                        "Error: Invalid Signature format")
  ELSE
    LET parsed == parseSignatureInput(signatureInput)
        signatureValue == parseSignature(signature)
    IN IF ~jwtVerify(Base64Decode(signatureValue), ServerPublicKey,
                     nowMs \div MsPerSec)
         THEN InvalidBecause(
                ErrVerificationFailed,
                jwtVerifyError(Base64Decode(signatureValue),
                               ServerPublicKey, nowMs \div MsPerSec))
       ELSE IF ExpiredByParam(parsed.parameters, nowMs)
         THEN Invalid(ErrExpired)
       ELSE Valid(parsed.parameters["keyid"], "Ed25519")

\* (mutant) the key is looked up by the declared keyid, and only the
\* crawler's key id is known
VerifyHeaders_KeyById(request, signatureInput, signature, nowMs) ==
  IF /\ ~parseSignatureInputThrows(signatureInput)
     /\ ~parseSignatureThrows(signature)
     /\ ~ExpiredByParam(parseSignatureInput(signatureInput).parameters, nowMs)
     /\ parseSignatureInput(signatureInput).parameters["keyid"]
          # Str(CrawlerKeyId)
    THEN InvalidBecause(ErrVerificationFailed, "unknown key id")
    ELSE VerifyHeaders_TokenFirst(request, signatureInput, signature, nowMs)

\* the promise of verifyRequest rejected with the error
Threw(error) ==
  [isValid |-> FALSE, error |-> "<thrown>", detail |-> error,
   keyId |-> Undefined, algorithm |-> "<undefined>"]

\* (mutant) the outer catch lets the error out
VerifyCatch_Rethrow(error) == Threw(error)

\* catch (error) { return { isValid: false,
\*                          error: `Verification error: ${error}` } }
VerifyCatch(error) == InvalidBecause(ErrVerificationError, error)

\* verifyRequest once both headers were found: the inner of its try block
VerifyHeaders(request, signatureInput, signature, nowMs) ==
  IF parseSignatureInputThrows(signatureInput)
    THEN VerifyCatch("Error: Invalid Signature-Input format")
  ELSE IF parseSignatureThrows(signature)
    THEN VerifyCatch("Error: Invalid Signature format")
  ELSE
    LET parsed == parseSignatureInput(signatureInput)
        signatureValue == parseSignature(signature)
    IN IF ExpiredByParam(parsed.parameters, nowMs)
         THEN Invalid(ErrExpired)
       ELSE IF buildSignedDataThrows(request, parsed.components)
         THEN VerifyCatch("TypeError: Invalid URL")
       ELSE
         LET signedData ==
               buildSignedData(request, parsed.components, signatureInput)
         IN IF VerifyArtifact(signatureValue, signedData,
                              ServerPublicKey, nowMs)
              THEN Valid(parsed.parameters["keyid"], "Ed25519")
              ELSE InvalidBecause(
                     ErrVerificationFailed,
                     jwtVerifyError(Base64Decode(signatureValue),
                                    ServerPublicKey, nowMs \div MsPerSec))

\* (mutant) the Signature header is looked up first
verifyRequest_SignatureFirst(request, nowMs) ==
  LET signatureInput == extractHeader(request.headers, "signature-input")
      signature == extractHeader(request.headers, "signature")
  IN IF Falsy(signature) THEN Invalid(ErrSignatureMissing)
     ELSE IF Falsy(signatureInput) THEN Invalid(ErrInputMissing)
     ELSE VerifyHeaders(request, signatureInput, signature, nowMs)

verifyRequest(request, nowMs) ==
  LET signatureInput == extractHeader(request.headers, "signature-input")
      signature == extractHeader(request.headers, "signature")
  IN IF Falsy(signatureInput) THEN Invalid(ErrInputMissing)
     ELSE IF Falsy(signature) THEN Invalid(ErrSignatureMissing)
     ELSE VerifyHeaders(request, signatureInput, signature, nowMs)

\* ------------------------------------------------------- the content server
\* What a route handler leaves in the response.
NoTx == [tx |-> -1]
Tx(ms) == [tx |-> ms]
NoBody == [kind |-> "none"]
\* JSON.stringify({amount, currency, description, crawlerId})
JsonBody(amount, currency, description, crawlerId) ==
  [kind |-> "json", amount |-> amount, currency |-> currency,
   description |-> description, crawlerId |-> crawlerId]
\* a body that JSON.parse rejects
InvalidBody == [kind |-> "invalid"]

\* body: "json" (c.json), "html" (c.html), or text that JSON.parse rejects
Response(status, verification, handler, headers, body, success, txId, echo) ==
  [status |-> status, ok |-> (status >= 200 /\ status <= 299),
   verification |-> verification, handler |-> handler, headers |-> headers,
   body |-> body, success |-> success, txId |-> txId, echo |-> echo]

\* c.req.raw.headers.entries(): names in lower case
MiddlewareRequest(request) ==
  [method |-> request.method, url |-> request.url,
   headers |-> [i \in 1..Len(request.headers) |->
                  Header(Lower(request.headers[i].name),
                         request.headers[i].value)]]

\* (mutant) the currency header is left out
PaymentHeaders_NoCurrency(amount, description) ==
  <<Header("Payment-Required", Str("true")),
    Header("Payment-Required-Amount", Num(amount)),
    Header("Payment-Required-Description", Str(description))>>

PaymentHeaders(amount, description) ==
  <<Header("Payment-Required", Str("true")),
    Header("Payment-Required-Amount", Num(amount)),
    Header("Payment-Required-Currency", Str("USD")),
    Header("Payment-Required-Description", Str(description))>>

\* app.get('/payment-required', ...) and the two routes below it
RouteHeaders(path) ==
  CASE path = "/payment-required" -> PaymentHeaders(100, "Content Access Fee")
    [] path = "/payment-required/low-price" ->
         PaymentHeaders(10, "Low Price Content Access Fee")
    [] path = "/payment-required/too-expensive" ->
         PaymentHeaders(1000, "High Price Content Access Fee")
    [] OTHER -> <<>>

ContentRoutes ==
  {"/", "/no-payment-required", "/payment-required",
   "/payment-required/low-price", "/payment-required/too-expensive"}

\* (mutant) the body is not parsed: every settlement succeeds
PaymentProcess_Unparsed(request, verification, nowMs) ==
  Response(200, verification, "/payment-process", <<>>, "json", TRUE,
           Tx(nowMs), request.body)

\* app.post('/payment-process', ...)
PaymentProcess(request, verification, nowMs) ==
  IF request.body.kind = "json"
    THEN Response(200, verification, "/payment-process", <<>>, "json", TRUE,
                  Tx(nowMs), request.body)
    ELSE Response(500, verification, "/payment-process", <<>>, "json", FALSE,
                  NoTx, NoBody)

\* the route table behind the middleware; no match is Hono's 404
Dispatch(request, verification, nowMs) ==
  LET path == URLParse(request.url).pathname
  IN IF request.method = "GET" /\ path \in ContentRoutes
       THEN Response(200, verification, path, RouteHeaders(path), "html",
                     FALSE, NoTx, NoBody)
     ELSE IF request.method = "POST" /\ path = "/payment-process"
       THEN PaymentProcess(request, verification, nowMs)
     ELSE Response(404, verification, "none", <<>>, "text", FALSE, NoTx,
                   NoBody)

\* (mutant) the settlement route is exempted from the verification
AppFetch_SettlementExempt(request, nowMs) ==
  LET verificationResult == verifyRequest(MiddlewareRequest(request), nowMs)
  IN IF ~verificationResult.isValid
        /\ URLParse(request.url).pathname # "/payment-process"
       THEN Response(401, verificationResult, "none", <<>>, "json", FALSE,
                     NoTx, NoBody)
       ELSE Dispatch(request, verificationResult, nowMs)

\* (mutant) an expired signature is let through to the route
AppFetch_ExpiredServed(request, nowMs) ==
  LET verificationResult == verifyRequest(MiddlewareRequest(request), nowMs)
  IN IF ~verificationResult.isValid
        /\ verificationResult.error # ErrExpired
       THEN Response(401, verificationResult, "none", <<>>, "json", FALSE,
                     NoTx, NoBody)
       ELSE Dispatch(request, verificationResult, nowMs)

\* (mutant) the 401 answer carries the headers of the route
AppFetch_TermsOn401(request, nowMs) ==
  LET verificationResult == verifyRequest(MiddlewareRequest(request), nowMs)
  IN IF ~verificationResult.isValid
       THEN Response(401, verificationResult, "none",
                     RouteHeaders(URLParse(request.url).pathname), "json",
                     FALSE, NoTx, NoBody)
       ELSE Dispatch(request, verificationResult, nowMs)

\* app.use('*', signature verification), then next()
AppFetch(request, nowMs) ==
  LET verificationResult == verifyRequest(MiddlewareRequest(request), nowMs)
  IN IF verificationResult.error = "<thrown>"
       THEN Response(500, verificationResult, "none", <<>>, "json", FALSE,
                     NoTx, NoBody)
     ELSE IF ~verificationResult.isValid
       THEN Response(401, verificationResult, "none", <<>>, "json", FALSE,
                     NoTx, NoBody)
       ELSE Dispatch(request, verificationResult, nowMs)

\* ------------------------------------------------------------ the crawler
\* this.serverUrl
ServerUrl == Url("http", "localhost", 8429, "", "")
\* `${this.serverUrl}${path}`
At(path) == [ServerUrl EXCEPT !.path = path]

\* const patterns in crawlPatterns
Patterns ==
  <<"/no-payment-required", "/payment-required",
    "/payment-required/low-price", "/payment-required/too-expensive">>

\* Crawler.makeRequest up to the fetch: sign, then set the three headers
SignedHeaders(key, keyId, method, url, nowMs) ==
  LET s == createSignature(key, keyId, method, url, nowMs)
  IN <<Header("Signature", s.signature),
       Header("Signature-Input", s.signatureInput),
       Header("Content-Type", Text("application/json"))>>

\* the arguments makeRequest hands to fetch
makeRequest(url, method, body, nowMs) ==
  [method |-> method, url |-> url,
   headers |-> SignedHeaders(CrawlerKey, CrawlerKeyId, method, url, nowMs),
   body |-> body]

\* response.headers.get(name)
HeadersGet(response, name) == extractHeader(response.headers, name)

\* x || undefined of a header value
OrUndefined(v) == IF v = Null \/ v = Str("") THEN Undefined ELSE v

\* (mutant) the Payment-Required header is not read
PaymentInfoOf_NotRequired(response) ==
  [required |-> FALSE, amount |-> NoAmount, currency |-> Undefined,
   description |-> Undefined]

\* the paymentInfo makeRequest reads off the response headers
PaymentInfoOf(response) ==
  LET amount == HeadersGet(response, "Payment-Required-Amount")
  IN [required |-> HeadersGet(response, "Payment-Required") = Str("true"),
      amount |-> IF amount = Null \/ amount = Str("") THEN NoAmount
                 ELSE IF amount.isnum THEN Amt(amount.num) ELSE NaN,
      currency |-> OrUndefined(HeadersGet(response,
                                          "Payment-Required-Currency")),
      description |-> OrUndefined(HeadersGet(response,
                                             "Payment-Required-Description"))]

\* (mutant) the offer is read off the amount, not off the required flag
NoPaymentNeeded_ByAmount(paymentInfo) == ~paymentInfo.amount.def

\* if (!paymentInfo.required) return true
NoPaymentNeeded(paymentInfo) == ~paymentInfo.required

\* (mutant) the ceiling is not compared
canPay_NoCeiling(paymentInfo) ==
  /\ paymentInfo.amount.def
  /\ ~paymentInfo.amount.nan
  /\ paymentInfo.amount.n # 0

\* (mutant) the ceiling itself is refused
canPay_Strict(paymentInfo) ==
  /\ paymentInfo.amount.def
  /\ ~paymentInfo.amount.nan
  /\ paymentInfo.amount.n # 0
  /\ paymentInfo.amount.n < maxPayment

\* (mutant) an amount of 0 is paid
canPay_ZeroPays(paymentInfo) ==
  /\ paymentInfo.amount.def
  /\ ~paymentInfo.amount.nan
  /\ paymentInfo.amount.n <= maxPayment

\* (mutant) only a number above the ceiling is refused
canPay_UnlessAbove(paymentInfo) ==
  ~(/\ paymentInfo.amount.def
    /\ ~paymentInfo.amount.nan
    /\ paymentInfo.amount.n > maxPayment)

\* const canPay = paymentInfo.amount && paymentInfo.amount <= maxPayment
canPay(paymentInfo) ==
  /\ paymentInfo.amount.def
  /\ ~paymentInfo.amount.nan
  /\ paymentInfo.amount.n # 0
  /\ paymentInfo.amount.n <= maxPayment

\* the settlement request of handlePayment: the Signature of one
\* createSignature call, the Signature-Input of a second one
SettlementRequest(paymentInfo, signature, signatureInput) ==
  [method |-> "POST", url |-> At("/payment-process"),
   headers |-> <<Header("Content-Type", Text("application/json")),
                 Header("Signature", signature),
                 Header("Signature-Input", signatureInput)>>,
   body |-> JsonBody(paymentInfo.amount, paymentInfo.currency,
                     paymentInfo.description, CrawlerKeyId)]

\* a fetch that rejects
FetchThrown ==
  [status |-> -1, ok |-> FALSE, verification |-> Invalid("<none>"),
   handler |-> "none", headers |-> <<>>, body |-> "text", success |-> FALSE,
   txId |-> NoTx, echo |-> NoBody]

\* (mutant) the catch block lets the error out
CatchBlock_Rethrow == "threw"

\* catch (error) { log.error(...); return false; }
CatchBlock == "false"

\* what handlePayment returns once the settlement fetch has settled
SettlementResult(response) ==
  IF response = FetchThrown THEN CatchBlock
  ELSE IF response.ok
    THEN (IF response.body = "json" THEN "true" ELSE CatchBlock)
  ELSE "false"

\* ------------------------------------------------------------- input sets
Paths ==
  {"/no-payment-required", "/payment-required",
   "/payment-required/low-price", "/payment-required/too-expensive",
   "/payment-process"}
Urls ==
  {At(p) : p \in Paths}
  \cup {Url("https", "example.com", 443, "", "?q=1"),
        Url("http", "example.com", 443, "/payment-required", "")}
Methods == {"GET", "POST", "get"}
SettlementBody ==
  JsonBody(Amt(10), Str("USD"), Str("Test payment"), CrawlerKeyId)
Bodies(method) ==
  IF method = "POST" THEN {SettlementBody, InvalidBody} ELSE {NoBody}
TickSteps == {1, 1000, 299000}

\* ------------------------------------------------------------------- state
VARIABLES
  clockMs,   \* Date.now()
  ticks,     \* clock advances so far
  req,       \* the request a client has built
  orig,      \* what the client signed: method, url, key, time
  altered,   \* req was altered after it was signed
  resp,      \* the server's response to req, and when it was produced
  issued,    \* transaction ids of the successful settlements, in order
  pc,        \* crawlPatterns: where the crawl stands
  idx,       \* crawlPatterns: the pattern of the for loop
  log,       \* crawlPatterns: what was logged for each pattern
  requested, \* crawlPatterns: the patterns a request was sent for
  crawlErr,  \* crawlPatterns: the outer catch block ran
  cause,     \* history: why each pattern got the outcome logged for it
  offer,     \* handlePayment: its paymentInfo argument
  hp,        \* handlePayment: where the call stands
  hpSig,     \* handlePayment: the Signature of the first createSignature
  hpFetches, \* handlePayment: settlement requests sent by this call
  hpRet,     \* handlePayment: what the call returned
  payReq,    \* handlePayment: the settlement request sent
  payResp,   \* handlePayment: what its fetch settled with
  settled,   \* history: the amounts of the offers accepted after settlement
  inflight,  \* the crawler's pending fetch
  inbox      \* what the pending fetch settles with

clock == <<clockMs, ticks>>
srv == <<req, orig, altered, resp>>
crawl == <<pc, idx, log, requested, crawlErr, cause>>
pay == <<offer, hp, hpSig, hpFetches, hpRet, payReq, payResp, settled>>
net == <<inflight, inbox>>
vars == <<clock, srv, issued, crawl, pay, net>>

NoRequest == [method |-> "<none>", url |-> BadUrl, headers |-> <<>>,
              body |-> NoBody]
NoOrig == [signed |-> FALSE, method |-> "<none>", url |-> BadUrl,
           key |-> "<none>", keyId |-> "<none>", atMs |-> 0,
           headers |-> <<>>]
NoResponse == Response(0, Invalid("<none>"), "none", <<>>, "text", FALSE,
                       NoTx, NoBody)
NoResp == [at |-> -1, r |-> NoResponse]

NoOffer == [required |-> FALSE, amount |-> NoAmount, currency |-> Undefined,
            description |-> Undefined]
NoSignature == SignatureValue("<none>", Base64([kind |-> "garbage"]))
\* the pending fetch has not settled
Pending == [FetchThrown EXCEPT !.status = 0]

Init ==
  /\ clockMs = 0
  /\ ticks = 0
  /\ req = NoRequest
  /\ orig = NoOrig
  /\ altered = FALSE
  /\ resp = NoResp
  /\ issued = <<>>
  /\ pc = "idle"
  /\ idx = 0
  /\ log = [i \in 1..Len(Patterns) |-> "none"]
  /\ requested = {}
  /\ crawlErr = FALSE
  /\ cause = [i \in 1..Len(Patterns) |-> "none"]
  /\ offer = NoOffer
  /\ hp = "idle"
  /\ hpSig = NoSignature
  /\ hpFetches = 0
  /\ hpRet = "none"
  /\ payReq = NoRequest
  /\ payResp = Pending
  /\ settled = <<>>
  /\ inflight = NoRequest
  /\ inbox = Pending

\* time passes
Tick(d) ==
  /\ ticks < MaxTicks
  /\ clockMs' = clockMs + d
  /\ ticks' = ticks + 1
  /\ UNCHANGED <<srv, issued, crawl, pay, net>>

\* a client built like the crawler, with the key pair of its keys directory
ClientSign(key, method, url, body) ==
  /\ req = NoRequest
  /\ ~createSignatureThrows(url)
  /\ req' = [method |-> method, url |-> url,
             headers |-> SignedHeaders(key, CrawlerKeyId, method, url, clockMs),
             body |-> body]
  /\ orig' = [signed |-> TRUE, method |-> method, url |-> url, key |-> key,
              keyId |-> CrawlerKeyId, atMs |-> clockMs,
              headers |-> SignedHeaders(key, CrawlerKeyId, method, url,
                                        clockMs)]
  /\ altered' = FALSE
  /\ resp' = NoResp
  /\ UNCHANGED <<clockMs, ticks, issued, crawl, pay, net>>

\* the same request signed again, at the current time
ClientResign ==
  /\ orig.signed
  /\ ~altered
  /\ orig.atMs # clockMs
  /\ req' = [req EXCEPT !.headers =
               SignedHeaders(orig.key, orig.keyId, orig.method, orig.url,
                             clockMs)]
  /\ orig' = [orig EXCEPT !.atMs = clockMs,
                          !.headers = SignedHeaders(orig.key, orig.keyId,
                                                    orig.method, orig.url,
                                                    clockMs)]
  /\ resp' = NoResp
  /\ UNCHANGED <<clockMs, ticks, altered, issued, crawl, pay, net>>

\* a client that does not sign
ClientUnsigned(method, url, body) ==
  /\ req = NoRequest
  /\ req' = [method |-> method, url |-> url,
             headers |-> <<Header("Content-Type", Text("application/json"))>>,
             body |-> body]
  /\ orig' = NoOrig
  /\ altered' = FALSE
  /\ resp' = NoResp
  /\ UNCHANGED <<clockMs, ticks, issued, crawl, pay, net>>

\* ---- alterations of a signed request in flight, without re-signing
SetHeader(headers, name, value) ==
  [i \in 1..Len(headers) |->
     IF Lower(headers[i].name) = Lower(name)
       THEN Header(headers[i].name, value) ELSE headers[i]]

RemoveHeader(headers, name) ==
  SelectSeq(headers, LAMBDA h : Lower(h.name) # Lower(name))

HasHeaderNamed(headers, name) ==
  \E i \in 1..Len(headers) : Lower(headers[i].name) = Lower(name)

\* the declaration with ;name=value replaced, or appended when absent
SetParam(decl, name, val) ==
  IF \E i \in 1..Len(decl.params) : decl.params[i].name = name
    THEN [decl EXCEPT !.params =
            [i \in 1..Len(decl.params) |->
               IF decl.params[i].name = name THEN Param(name, val)
               ELSE decl.params[i]]]
    ELSE [decl EXCEPT !.params = Append(decl.params, Param(name, val))]

Altering ==
  /\ orig.signed
  /\ ~altered
  /\ altered' = TRUE
  /\ resp' = NoResp
  /\ UNCHANGED <<clockMs, ticks, orig, issued, crawl, pay, net>>

AlterMethod(m) ==
  /\ Altering
  /\ m # req.method
  /\ req' = [req EXCEPT !.method = m]

AlterUrl(u) ==
  /\ Altering
  /\ u # req.url
  /\ req' = [req EXCEPT !.url = u]

ParamValues(name) ==
  CASE name = "keyid" -> {Quoted(Str("other-key-id"))}
    [] name = "created" -> {Num(1)}
    [] OTHER -> {Num(0), Num(1000)}

AlterParam(name, val) ==
  /\ Altering
  /\ extractHeader(req.headers, "signature-input").kind = "decl"
  /\ LET decl == extractHeader(req.headers, "signature-input")
     IN /\ SetParam(decl, name, val) # decl
        /\ req' = [req EXCEPT !.headers =
                     SetHeader(req.headers, "signature-input",
                               SetParam(decl, name, val))]

\* the declaration without its ;name=value
DropParam(name) ==
  /\ Altering
  /\ extractHeader(req.headers, "signature-input").kind = "decl"
  /\ LET decl == extractHeader(req.headers, "signature-input")
         kept == SelectSeq(decl.params, LAMBDA prm : prm.name # name)
     IN /\ kept # decl.params
        /\ req' = [req EXCEPT !.headers =
                     SetHeader(req.headers, "signature-input",
                               [decl EXCEPT !.params = kept])]

\* the token's payload edited, the signature bytes kept
AlterArtifact ==
  /\ Altering
  /\ extractHeader(req.headers, "signature").kind = "sigval"
  /\ LET sv == extractHeader(req.headers, "signature")
         jwt == Base64Decode(sv.art)
         forged == [jwt EXCEPT !.payload.exp = jwt.payload.exp + ValidityWindow]
     IN req' = [req EXCEPT !.headers =
                  SetHeader(req.headers, "signature",
                            SignatureValue(sv.label, Base64(forged)))]

DropHeader(name) ==
  /\ Altering
  /\ RemoveHeader(req.headers, name) # req.headers
  /\ req' = [req EXCEPT !.headers = RemoveHeader(req.headers, name)]

\* header values the two parsers or the token check cannot read
MalformedValues(name) ==
  IF name = "signature"
    THEN {Text("garbage"),
          SignatureValue("sig1", Base64([kind |-> "garbage"]))}
    ELSE {Text("garbage")}

AlterMalformed(name, value) ==
  /\ Altering
  /\ HasHeaderNamed(req.headers, name)
  /\ req' = [req EXCEPT !.headers = SetHeader(req.headers, name, value)]

\* a second alteration, of the Signature header of a request that was given
\* an expires parameter: removed (Null) or made unreadable
AlterSignatureToo(value) ==
  /\ orig.signed
  /\ altered
  /\ extractHeader(req.headers, "signature-input").kind = "decl"
  /\ \E i \in 1..Len(extractHeader(req.headers, "signature-input").params) :
       extractHeader(req.headers, "signature-input").params[i].name
         = "expires"
  /\ extractHeader(req.headers, "signature").kind = "sigval"
  /\ extractHeader(req.headers, "signature").art.of.kind = "jwt"
  /\ req' = [req EXCEPT !.headers =
               IF value = Null THEN RemoveHeader(req.headers, "signature")
               ELSE SetHeader(req.headers, "signature", value)]
  /\ resp' = NoResp
  /\ UNCHANGED <<clockMs, ticks, orig, altered, issued, crawl, pay, net>>

\* a header no component names
AlterUncovered ==
  /\ Altering
  /\ extractHeader(req.headers, "content-type") # Text("text/plain")
  /\ req' = [req EXCEPT !.headers =
               SetHeader(req.headers, "content-type", Text("text/plain"))]

\* app.fetch(request): the middleware and the route handler
Handle ==
  /\ req # NoRequest
  /\ LET r == AppFetch(req, clockMs)
     IN /\ r.success => Len(issued) < MaxSettle
        /\ resp' = [at |-> clockMs, r |-> r]
        /\ issued' = IF r.success THEN Append(issued, r.txId) ELSE issued
  /\ UNCHANGED <<clockMs, ticks, req, orig, altered, crawl, pay, net>>

Next ==
  \/ \E d \in TickSteps : Tick(d)
  \/ \E k \in Keys, m \in Methods, u \in Urls :
       \E b \in Bodies(m) : ClientSign(k, m, u, b)
  \/ ClientResign
  \/ \E m \in Methods, u \in Urls : \E b \in Bodies(m) : ClientUnsigned(m, u, b)
  \/ \E m \in Methods : AlterMethod(m)
  \/ \E u \in Urls : AlterUrl(u)
  \/ \E n \in {"created", "expires", "keyid"} :
       \E v \in ParamValues(n) : AlterParam(n, v)
  \/ \E n \in {"created", "keyid"} : DropParam(n)
  \/ AlterArtifact
  \/ \E n \in {"signature", "signature-input"} : DropHeader(n)
  \/ AlterUncovered
  \/ \E v \in MalformedValues("signature") \cup {Null} : AlterSignatureToo(v)
  \/ \E n \in {"signature", "signature-input"} :
       \E v \in MalformedValues(n) : AlterMalformed(n, v)
  \/ Handle

Spec == Init /\ [][Next]_vars

\* ---- verifyRequest on any RequestLike: request.url is any string
\* the URL of the signed request replaced by a string new URL() rejects
AlterUrlUnparsable ==
  /\ Altering
  /\ req' = [req EXCEPT !.url = BadUrl]

\* an unsigned request whose URL is such a string
UnsignedUnparsable(method) ==
  /\ req = NoRequest
  /\ req' = [method |-> method, url |-> BadUrl,
             headers |-> <<Header("Content-Type", Text("application/json"))>>,
             body |-> NoBody]
  /\ orig' = NoOrig
  /\ altered' = FALSE
  /\ resp' = NoResp
  /\ UNCHANGED <<clockMs, ticks, issued, crawl, pay, net>>

NextVerify ==
  \/ Next
  \/ AlterUrlUnparsable
  \/ \E m \in Methods : UnsignedUnparsable(m)

SpecVerify == Init /\ [][NextVerify]_vars

\* ----------------------------------------------------------- the network
\* the pending fetch rejects (transport error)
NetThrows ==
  /\ inflight # NoRequest
  /\ inbox = Pending
  /\ inbox' = FetchThrown
  /\ UNCHANGED <<clock, srv, issued, crawl, pay, inflight>>

\* the content server answers the pending fetch
NetServer ==
  /\ inflight # NoRequest
  /\ inbox = Pending
  /\ LET r == AppFetch(inflight, clockMs)
     IN /\ r.success => Len(issued) < MaxSettle
        /\ inbox' = r
        /\ issued' = IF r.success THEN Append(issued, r.txId) ELSE issued
  /\ UNCHANGED <<clock, srv, crawl, pay, inflight>>

\* what a stand-in for the server (a test double, a proxy) may answer
MockResponses ==
  {Response(503, Invalid("<none>"), "none", <<>>, "text", FALSE, NoTx,
            NoBody),
   Response(200, Invalid("<none>"), "none", <<>>, "text", FALSE, NoTx,
            NoBody),
   Response(200, Invalid("<none>"), "none", <<>>, "json", TRUE, NoTx,
            NoBody),
   Response(200, Invalid("<none>"), "none",
            <<Header("Payment-Required", Str("true"))>>, "html", FALSE, NoTx,
            NoBody),
   Response(200, Invalid("<none>"), "none",
            <<Header("Payment-Required", Str("true")),
              Header("Payment-Required-Amount", Str("free"))>>, "html",
            FALSE, NoTx, NoBody),
   Response(200, Invalid("<none>"), "none",
            <<Header("Payment-Required", Str("true")),
              Header("Payment-Required-Amount", Num(0))>>, "html",
            FALSE, NoTx, NoBody)}

NetMock(r) ==
  /\ inflight # NoRequest
  /\ inbox = Pending
  /\ inbox' = r
  /\ UNCHANGED <<clock, srv, issued, crawl, pay, inflight>>

\* ------------------------------------------------- Crawler.handlePayment
\* the sum of a sequence of amounts
RECURSIVE Total(_)
Total(amounts) ==
  IF amounts = <<>> THEN 0 ELSE Head(amounts) + Total(Tail(amounts))

\* (mutant) the ceiling is a budget the settled amounts are drawn from
HpDecide_Budgeted ==
  /\ hp = "entry"
  /\ IF NoPaymentNeeded(offer)
       THEN hp' = "returned" /\ hpRet' = "true"
       ELSE IF canPay(offer) /\ Total(settled) + offer.amount.n <= maxPayment
         THEN hp' = "sign1" /\ hpRet' = hpRet
         ELSE hp' = "returned" /\ hpRet' = "false"
  /\ UNCHANGED <<clock, srv, issued, crawl, net, offer, hpSig, hpFetches,
                 payReq, payResp, settled>>

\* the required flag and the ceiling check
HpDecide ==
  /\ hp = "entry"
  /\ IF NoPaymentNeeded(offer)
       THEN hp' = "returned" /\ hpRet' = "true"
       ELSE IF canPay(offer)
         THEN hp' = "sign1" /\ hpRet' = hpRet
         ELSE hp' = "returned" /\ hpRet' = "false"
  /\ UNCHANGED <<clock, srv, issued, crawl, net, offer, hpSig, hpFetches,
                 payReq, payResp, settled>>

\* (await this.createSignature('POST', ...)).signature
HpSign1 ==
  /\ hp = "sign1"
  /\ hpSig' = createSignature(CrawlerKey, CrawlerKeyId, "POST",
                              At("/payment-process"), clockMs).signature
  /\ hp' = "sign2"
  /\ UNCHANGED <<clock, srv, issued, crawl, net, offer, hpFetches, hpRet,
                 payReq, payResp, settled>>

\* (await this.createSignature('POST', ...)).signatureInput, then fetch
HpSign2 ==
  /\ hp = "sign2"
  /\ inflight = NoRequest
  /\ LET signatureInput ==
           createSignature(CrawlerKey, CrawlerKeyId, "POST",
                           At("/payment-process"), clockMs).signatureInput
         request == SettlementRequest(offer, hpSig, signatureInput)
     IN /\ inflight' = request
        /\ payReq' = request
  /\ inbox' = Pending
  /\ hpFetches' = hpFetches + 1
  /\ hp' = "fetch"
  /\ UNCHANGED <<clock, srv, issued, crawl, offer, hpSig, hpRet, payResp,
                 settled>>

\* the fetch settles: paymentResponse.ok, paymentResponse.json(), catch
HpResponse ==
  /\ hp = "fetch"
  /\ inbox # Pending
  /\ payResp' = inbox
  /\ hpRet' = SettlementResult(inbox)
  /\ hp' = "returned"
  /\ inflight' = NoRequest
  /\ inbox' = Pending
  /\ settled' = IF SettlementResult(inbox) = "true"
                  THEN Append(settled, offer.amount.n) ELSE settled
  /\ UNCHANGED <<clock, srv, issued, crawl, offer, hpSig, hpFetches, payReq>>

\* ------------------------------------------------- Crawler.crawlPatterns
\* makeRequest(`${this.serverUrl}/`)
CrawlStart ==
  /\ pc = "idle"
  /\ inflight' = makeRequest(At("/"), "GET", NoBody, clockMs)
  /\ inbox' = Pending
  /\ pc' = "root"
  /\ UNCHANGED <<clock, srv, issued, idx, log, requested, crawlErr, cause,
                 pay>>

\* (mutant) only a rejected fetch ends the crawl
ListingFailed_ThrownOnly(response) == response = FetchThrown

\* the listing did not arrive: makeRequest rejected, or
\* if (!rootResponse.ok) throw new Error(...)
ListingFailed(response) == response = FetchThrown \/ ~response.ok

\* catch (error) { log.error(...) }: crawlPatterns resolves
OuterCatch == "done"

\* the listing answered: if (!rootResponse.ok) throw; a rejected fetch and
\* the throw both end in the outer catch
CrawlRoot ==
  /\ pc = "root"
  /\ inbox # Pending
  /\ IF ListingFailed(inbox)
       THEN pc' = OuterCatch /\ crawlErr' = TRUE /\ idx' = idx
       ELSE pc' = "next" /\ crawlErr' = crawlErr /\ idx' = 1
  /\ inflight' = NoRequest
  /\ inbox' = Pending
  /\ UNCHANGED <<clock, srv, issued, log, requested, cause, pay>>

\* for (const pattern of patterns): makeRequest(serverUrl + pattern.url)
CrawlRequest ==
  /\ pc = "next"
  /\ inflight' = makeRequest(At(Patterns[idx]), "GET", NoBody, clockMs)
  /\ inbox' = Pending
  /\ requested' = requested \cup {idx}
  /\ pc' = "resource"
  /\ UNCHANGED <<clock, srv, issued, idx, log, crawlErr, cause, pay>>

\* the end of one loop body
LoopStep ==
  /\ idx' = idx + 1
  /\ pc' = IF idx = Len(Patterns) THEN "done" ELSE "next"

\* the resource answered: a rejected fetch leaves the loop for the outer
\* catch; response.ok calls handlePayment; otherwise the failure is logged
CrawlResource ==
  /\ pc = "resource"
  /\ inbox # Pending
  /\ inflight' = NoRequest
  /\ inbox' = Pending
  /\ IF inbox = FetchThrown
       THEN /\ pc' = OuterCatch
            /\ crawlErr' = TRUE
            /\ UNCHANGED <<idx, log, cause, pay>>
       ELSE IF inbox.ok
         THEN /\ pc' = "pay"
              /\ offer' = PaymentInfoOf(inbox)
              /\ hp' = "entry"
              /\ hpFetches' = 0
              /\ hpRet' = "none"
              /\ UNCHANGED <<idx, log, crawlErr, cause, hpSig, payReq,
                             payResp, settled>>
         ELSE /\ log' = [log EXCEPT ![idx] = "request failed"]
              /\ cause' = [cause EXCEPT ![idx] = "request failed"]
              /\ LoopStep
              /\ UNCHANGED <<crawlErr, pay>>
  /\ UNCHANGED <<clock, srv, issued, requested>>

\* history: which branch of handlePayment produced the value it returned
DecisionCause ==
  IF ~offer.required THEN "no payment required"
  ELSE IF hpFetches = 0 THEN "policy"
  ELSE IF hpRet = "true" THEN "settled"
  ELSE IF payResp = FetchThrown THEN "transport"
  ELSE "negotiator"

\* handlePayment returned: canAccess
CrawlAfterPay ==
  /\ pc = "pay"
  /\ hp = "returned"
  /\ hp' = "idle"
  /\ IF hpRet = "threw"
       THEN /\ pc' = OuterCatch
            /\ crawlErr' = TRUE
            /\ UNCHANGED <<idx, log, cause>>
       ELSE /\ log' = [log EXCEPT ![idx] =
                        IF hpRet = "true" THEN "access granted"
                        ELSE "access denied"]
            /\ cause' = [cause EXCEPT ![idx] = DecisionCause]
            /\ LoopStep
            /\ crawlErr' = crawlErr
  /\ UNCHANGED <<clock, srv, issued, requested, net, offer, hpSig, hpFetches,
                 hpRet, payReq, payResp, settled>>

NextCrawl ==
  \/ \E d \in TickSteps : Tick(d)
  \/ CrawlStart
  \/ CrawlRoot
  \/ CrawlRequest
  \/ CrawlResource
  \/ CrawlAfterPay
  \/ HpDecide
  \/ HpSign1
  \/ HpSign2
  \/ HpResponse
  \/ NetThrows
  \/ NetServer
  \/ \E r \in MockResponses : NetMock(r)

SpecCrawl == Init /\ [][NextCrawl]_vars

\* ---- the crawl against the content server itself: every fetch is answered
\* by app.fetch
NextCrawlServer ==
  \/ \E d \in TickSteps : Tick(d)
  \/ CrawlStart
  \/ CrawlRoot
  \/ CrawlRequest
  \/ CrawlResource
  \/ CrawlAfterPay
  \/ HpDecide
  \/ HpSign1
  \/ HpSign2
  \/ HpResponse
  \/ NetServer

SpecCrawlServer == Init /\ [][NextCrawlServer]_vars

\* ---- handlePayment called on its own, on any paymentInfo
OfferAmounts ==
  {NoAmount, NaN, Amt(0), Amt(10), Amt(50), Amt(51), Amt(1000), Amt(-5)}
Offers ==
  [required : BOOLEAN, amount : OfferAmounts,
   currency : {Undefined, Str("USD")},
   description : {Undefined, Str("Test payment")}]

InitPay ==
  /\ clockMs = 0
  /\ ticks = 0
  /\ req = NoRequest
  /\ orig = NoOrig
  /\ altered = FALSE
  /\ resp = NoResp
  /\ issued = <<>>
  /\ pc = "unit"
  /\ idx = 0
  /\ log = [i \in 1..Len(Patterns) |-> "none"]
  /\ requested = {}
  /\ crawlErr = FALSE
  /\ cause = [i \in 1..Len(Patterns) |-> "none"]
  /\ offer \in Offers
  /\ hp = "entry"
  /\ hpSig = NoSignature
  /\ hpFetches = 0
  /\ hpRet = "none"
  /\ payReq = NoRequest
  /\ payResp = Pending
  /\ settled = <<>>
  /\ inflight = NoRequest
  /\ inbox = Pending

NextPay ==
  \/ \E d \in TickSteps : Tick(d)
  \/ HpDecide
  \/ HpSign1
  \/ HpSign2
  \/ HpResponse
  \/ NetThrows
  \/ NetServer
  \/ \E r \in MockResponses : NetMock(r)

SpecPay == InitPay /\ [][NextPay]_vars

\* ---- handlePayment called again and again, as the crawl loop does
\* the offers of such a run: free, within the ceiling, at it, above it
SeqOffers ==
  {[required |-> r, amount |-> a, currency |-> Str("USD"),
    description |-> Str("Test payment")] :
     r \in BOOLEAN, a \in {Amt(10), Amt(50), Amt(1000)}}

\* a new call: its locals are fresh
HpCall(paymentInfo) ==
  /\ pc = "unit"
  /\ hp = "returned"
  /\ Len(settled) < MaxSettle
  /\ offer' = paymentInfo
  /\ hp' = "entry"
  /\ hpSig' = NoSignature
  /\ hpFetches' = 0
  /\ hpRet' = "none"
  /\ payReq' = NoRequest
  /\ payResp' = Pending
  /\ UNCHANGED <<clock, srv, issued, crawl, net, settled>>

InitPaySeq == InitPay /\ offer \in SeqOffers

NextPaySeq ==
  \/ \E o \in SeqOffers : HpCall(o)
  \/ NextPay

SpecPaySeq == InitPaySeq /\ [][NextPaySeq]_vars

\* ------------------------------------------------------------------ claims
\* the request as the client signed it
OriginalRequest ==
  [method |-> orig.method, url |-> orig.url, headers |-> orig.headers,
   body |-> req.body]
SameSignatureHeaders ==
  /\ extractHeader(req.headers, "signature")
       = extractHeader(orig.headers, "signature")
  /\ extractHeader(req.headers, "signature-input")
       = extractHeader(orig.headers, "signature-input")
Handled == resp # NoResp
CreatedSec == orig.atMs \div MsPerSec
HandledSec == resp.at \div MsPerSec

\* C1: a request carrying exactly the Signature and Signature-Input headers
\* createSignature produced with key K, verified for the same method and URL
\* by the holder of K's public key less than 300 seconds after its creation,
\* is valid, with the signer's key id and algorithm Ed25519.
C1_SignedRequestVerifies ==
  (/\ Handled
   /\ orig.signed
   /\ PublicOf(orig.key) = ServerPublicKey
   /\ SameSignatureHeaders
   /\ req.method = orig.method
   /\ req.url = orig.url
   /\ HandledSec < CreatedSec + ValidityWindow)
  => resp.r.verification = Valid(Str(orig.keyId), "Ed25519")

C1_Witness ==
  /\ Handled
  /\ orig.signed
  /\ PublicOf(orig.key) = ServerPublicKey
  /\ ~altered
  /\ req.method = "POST"
  /\ HandledSec = CreatedSec + ValidityWindow - 1
  /\ resp.r.verification = Valid(Str(CrawlerKeyId), "Ed25519")

CoveredComponentAltered ==
  \/ Upper(req.method) # Upper(orig.method)
  \/ req.url # orig.url
  \/ parseSignatureInput(extractHeader(req.headers, "signature-input"))
       .parameters["created"] # Num(CreatedSec)

\* C2: a signed request whose covered component value (method, URL, created)
\* was altered without re-signing is rejected with VerificationFailed, and an
\* alteration of an uncovered value leaves the verification result as it
\* would be for the request as signed.
C2_AlteredComponentRejected ==
  (Handled /\ orig.signed /\ altered
   /\ extractHeader(req.headers, "signature-input").kind = "decl")
  => /\ CoveredComponentAltered
          => /\ ~resp.r.verification.isValid
             /\ resp.r.verification.error = ErrVerificationFailed
     /\ (~CoveredComponentAltered /\ SameSignatureHeaders)
          => resp.r.verification
               = verifyRequest(MiddlewareRequest(OriginalRequest), resp.at)

DeclarationReplaced ==
  /\ extractHeader(req.headers, "signature-input").kind = "decl"
  /\ extractHeader(req.headers, "signature-input")
       # extractHeader(orig.headers, "signature-input")
  /\ extractHeader(req.headers, "signature")
       = extractHeader(orig.headers, "signature")

\* C3: a request whose Signature-Input parameter (created, expires, keyid)
\* was replaced after signing, the Signature value kept, is invalid; the
\* keyId of a valid result is the key id the signature was produced under.
C3_DeclarationBound ==
  (Handled /\ orig.signed)
  => /\ DeclarationReplaced => ~resp.r.verification.isValid
     /\ resp.r.verification.isValid
          => resp.r.verification.keyId = Str(orig.keyId)

IsSettlementRequest ==
  req.method = "POST" /\ URLParse(req.url).pathname = "/payment-process"

\* C4: a route handler runs only for a request verifyRequest found valid; a
\* settlement request it found invalid is answered 401, runs no handler and
\* gets no transaction id, and the settlement log does not grow.
C4_HandlerOnlyIfValid ==
  Handled =>
    LET v == verifyRequest(MiddlewareRequest(req), resp.at)
    IN /\ resp.r.handler # "none" => v.isValid
       /\ ~v.isValid =>
            /\ resp.r.status = 401
            /\ resp.r.handler = "none"
            /\ ~resp.r.success
            /\ resp.r.txId = NoTx
C4_SettlementBehindVerifier ==
  /\ []C4_HandlerOnlyIfValid
  /\ [][issued' # issued =>
          /\ IsSettlementRequest
          /\ verifyRequest(MiddlewareRequest(req), clockMs).isValid]_vars

C4_Witness ==
  /\ Handled
  /\ IsSettlementRequest
  /\ ~orig.signed
  /\ req.body.kind = "json"
  /\ resp.r.status = 401
  /\ issued = <<>>

\* C9: the transaction ids of the successful settlements are pairwise
\* distinct, whatever the timing of the calls.
C9_DistinctTransactionIds ==
  \A i, j \in 1..Len(issued) : i # j => issued[i] # issued[j]

\* ---- handlePayment
NumberAmount == offer.amount.def /\ ~offer.amount.nan
Affordable ==
  /\ offer.required
  /\ NumberAmount
  /\ offer.amount.n > 0
  /\ offer.amount.n <= maxPayment
SettlementFetched == payResp # Pending
SettlementSucceeded ==
  SettlementFetched /\ payResp.status = 200 /\ payResp.success
SettlementFailed ==
  SettlementFetched /\ (payResp = FetchThrown \/ ~payResp.ok)

\* C5: handlePayment on an offer with required = false returns true and
\* sends no settlement request, whatever the other fields of the offer.
C5_NotRequiredAccepts ==
  ~offer.required
  => /\ hpFetches = 0
     /\ inflight = NoRequest
     /\ payReq = NoRequest
     /\ issued = <<>>
     /\ hp \in {"entry", "returned"}
     /\ hp = "returned" => hpRet = "true"

C5_Witness ==
  /\ hp = "returned"
  /\ ~offer.required
  /\ offer.amount = Amt(1000)
  /\ offer.currency = Str("USD")
  /\ hpRet = "true"

\* C6: handlePayment on an offer with required = true and an amount above
\* the ceiling of 50 returns false at once and sends no settlement request.
C6_AboveCeilingRejects ==
  (offer.required /\ NumberAmount /\ offer.amount.n > maxPayment)
  => /\ hpFetches = 0
     /\ inflight = NoRequest
     /\ payReq = NoRequest
     /\ issued = <<>>
     /\ hp \in {"entry", "returned"}
     /\ hp = "returned" => hpRet = "false"

C6_Witness ==
  /\ hp = "returned"
  /\ offer.required
  /\ offer.amount = Amt(51)
  /\ hpRet = "false"
  /\ hpFetches = 0

\* the settlement request is a signed POST to /payment-process: its two
\* signature headers are what createSignature yields for that method and URL
\* at the time each of them names, and the verifier accepts the request at
\* the time the token was issued
SignedSettlementRequest(r) ==
  LET signature == extractHeader(r.headers, "signature")
      declaration == extractHeader(r.headers, "signature-input")
      token == Base64Decode(signature.art)
      created == parseSignatureInput(declaration).parameters["created"]
  IN /\ r.method = "POST"
     /\ r.url = At("/payment-process")
     /\ signature.kind = "sigval"
     /\ declaration.kind = "decl"
     /\ token.kind = "jwt"
     /\ signature = createSignature(CrawlerKey, CrawlerKeyId, "POST", r.url,
                                    token.payload.iat * MsPerSec).signature
     /\ declaration = createSignature(CrawlerKey, CrawlerKeyId, "POST", r.url,
                                      created.num * MsPerSec).signatureInput
     /\ verifyRequest(MiddlewareRequest(r), token.payload.iat * MsPerSec)
          = Valid(Str(CrawlerKeyId), "Ed25519")

\* C7: handlePayment on an offer with required = true and a positive amount
\* up to and including the ceiling of 50 sends exactly one settlement
\* request, a signed POST to /payment-process whose body carries the offer's
\* amount, currency and description and the crawler's key id as crawlerId,
\* and returns true when that settlement succeeds.
C7_AffordableSettlesOnce ==
  Affordable
  => /\ hpFetches <= 1
     /\ hp \in {"fetch", "returned"} =>
          /\ hpFetches = 1
          /\ SignedSettlementRequest(payReq)
          /\ payReq.body = JsonBody(offer.amount, offer.currency,
                                    offer.description, CrawlerKeyId)
     /\ (hp = "returned" /\ SettlementSucceeded) => hpRet = "true"

C7_Witness ==
  /\ hp = "returned"
  /\ offer.required
  /\ offer.amount = Amt(50)
  /\ hpFetches = 1
  /\ payResp.txId # NoTx
  /\ issued = <<payResp.txId>>
  /\ hpRet = "true"

\* C8: when the settlement request of an affordable offer fails, by a thrown
\* transport error or by a response that is not OK, handlePayment returns
\* false, does not throw and sends no second settlement request.
C8_FailedSettlementRejects ==
  /\ hpRet # "threw"
  /\ hpFetches <= 1
  /\ (Affordable /\ hp = "returned" /\ SettlementFailed)
       => hpRet = "false" /\ hpFetches = 1 /\ inflight = NoRequest

C8_Witness ==
  /\ Affordable
  /\ hp = "returned"
  /\ payResp = FetchThrown
  /\ hpFetches = 1
  /\ hpRet = "false"

\* ---- crawlPatterns
ListingSucceeded == idx >= 1
AllPatterns == 1..Len(Patterns)

\* C10: once the listing was fetched, no failure on one resource, neither a
\* response that is not OK nor a thrown transport error, ends the crawl: at
\* the end every resource was requested and has its outcome logged.
C10_ResourceFailureIsolated ==
  (pc = "done" /\ ListingSucceeded) => requested = AllPatterns

\* ---- the two header lookups of verifyRequest
\* a header of that name, in whatever case it is written
HasHeader(headers, name) ==
  \E i \in 1..Len(headers) : Lower(headers[i].name) = name
\* the same headers with their names in capitals
Capitals(name) ==
  CASE Lower(name) = "signature" -> "SIGNATURE"
    [] Lower(name) = "signature-input" -> "SIGNATURE-INPUT"
    [] OTHER -> name
Recased(headers) ==
  [i \in 1..Len(headers) |->
     Header(Capitals(headers[i].name), headers[i].value)]
\* req with its header names as written, in lower case and in capitals
Spellings ==
  {req.headers, MiddlewareRequest(req).headers, Recased(req.headers)}

Contains(text, part) ==
  \E i \in 1..(Len(text) - Len(part) + 1) :
    SubSeq(text, i, i + Len(part) - 1) = part

WellFormedHeaders ==
  /\ HasHeader(req.headers, "signature")
  /\ HasHeader(req.headers, "signature-input")
  /\ extractHeader(req.headers, "signature").kind = "sigval"
  /\ extractHeader(req.headers, "signature-input").kind = "decl"
\* the ;expires=<seconds> of req's declaration
HasExpires ==
  /\ WellFormedHeaders
  /\ \E i \in 1..Len(extractHeader(req.headers, "signature-input").params) :
       LET prm == extractHeader(req.headers, "signature-input").params[i]
       IN prm.name = "expires" /\ prm.val.isnum
ExpiresSec ==
  LET params == extractHeader(req.headers, "signature-input").params
  IN params[CHOOSE i \in 1..Len(params) : params[i].name = "expires"]
       .val.num
\* the token of req would pass jwtVerify at the time req was handled
ArtifactVerifies ==
  jwtVerify(Base64Decode(extractHeader(req.headers, "signature").art),
            ServerPublicKey, HandledSec)

\* C13: a request whose declaration carries expires is answered 'Signature
\* expired' when the time in whole seconds is past expires, whether or not
\* its token would verify; at the second expires names it is not.
C13_ExpiresParameter ==
  (Handled /\ HasExpires)
  => /\ HandledSec > ExpiresSec
          => resp.r.verification = Invalid(ErrExpired)
     /\ HandledSec = ExpiresSec
          => /\ resp.r.verification.error # ErrExpired
             /\ resp.r.verification.isValid = ArtifactVerifies

C13_Witness ==
  /\ Handled
  /\ HasExpires
  /\ HandledSec > ExpiresSec
  /\ ArtifactVerifies
  /\ resp.r.verification = Invalid(ErrExpired)
  /\ resp.r.status = 401

\* ---- the validity window of the token
\* req is the request as signed, handled after its window has passed
WindowPassed ==
  /\ Handled
  /\ orig.signed
  /\ ~altered
  /\ PublicOf(orig.key) = ServerPublicKey
  /\ HandledSec > CreatedSec + ValidityWindow

\* C14: a request verified more than 300 seconds after its signature was
\* created is rejected with an error containing 'Signature expired', its
\* declaration carrying no expires parameter.
C14_WindowPassedExpired ==
  (WindowPassed /\ ~HasExpires)
  => /\ ~resp.r.verification.isValid
     /\ Contains(ErrorMessage(resp.r.verification), ErrExpired)

\* ---- what createSignature emits
SignedDeclaration == extractHeader(orig.headers, "signature-input")
SignedSignature == extractHeader(orig.headers, "signature")
\* the ;name=value parameters of the emitted declaration, by name
EmittedParams(name) ==
  {SignedDeclaration.params[i].val :
     i \in {j \in 1..Len(SignedDeclaration.params) :
              SignedDeclaration.params[j].name = name}}
EmittedComponentsAndForm ==
  /\ SignedDeclaration.kind = "decl"
  /\ SignedDeclaration.label = "sig1"
  /\ SignedDeclaration.comps
       = <<"@method", "@target-uri", "@authority", "@scheme",
           "@request-target", "created">>
  /\ EmittedParams("created") = {Num(CreatedSec)}
  /\ EmittedParams("keyid") = {Quoted(Str(orig.keyId))}
  /\ SignedSignature.kind = "sigval"
  /\ SignedSignature.label = "sig1"
  /\ SignedSignature.art.kind = "b64"

\* C15: the Signature-Input createSignature emits lists the six components
\* in the fixed order and carries created, expires = created + 300 and
\* keyid; its Signature has the form sig1=:<encoded artifact>:.
C15_EmittedHeaders ==
  orig.signed
  => /\ EmittedComponentsAndForm
     /\ EmittedParams("expires") = {Num(CreatedSec + ValidityWindow)}

\* ---- the decision of handlePayment
Accepted == hp = "returned" /\ hpRet = "true"
Rejected == hp = "returned" /\ hpRet = "false"

\* C16: when handlePayment accepts an offer that requires payment, the
\* settlement response it accepted on carries a transaction id.
C16_AcceptCarriesTransactionId ==
  (Accepted /\ offer.required)
  => /\ SettlementFetched
     /\ payResp.txId # NoTx

\* the offer is refused by policy: payment required and no amount, an amount
\* of 0, or an amount above the ceiling
PolicyRejects ==
  /\ offer.required
  /\ \/ ~NumberAmount
     \/ offer.amount.n = 0
     \/ offer.amount.n > maxPayment

\* C17 (as stated): on every offer handlePayment rejects, no settlement
\* request was sent and no transaction id was issued.
C17_RejectedNeverSettles ==
  Rejected => (hpFetches = 0 /\ payReq = NoRequest /\ issued = <<>>)

\* C17 (amended): an offer rejected by policy had no settlement request sent
\* and no transaction id issued; any other rejected offer had exactly one
\* settlement request sent, and that request failed: its fetch threw, its
\* response was not OK, or the response body was not JSON.
C17_RejectedNeverSettlesAmended ==
  Rejected
  => IF PolicyRejects
       THEN hpFetches = 0 /\ payReq = NoRequest /\ issued = <<>>
       ELSE /\ hpFetches = 1
            /\ SignedSettlementRequest(payReq)
            /\ \/ SettlementFailed
               \/ (SettlementFetched /\ payResp.body # "json")
            /\ ~SettlementSucceeded

C17_Witness ==
  /\ Rejected
  /\ offer.required
  /\ offer.amount = Amt(10)
  /\ hpFetches = 1
  /\ payReq # NoRequest
  /\ payResp.status = 503

\* ---- the full crawl
\* the crawl ended inside the validity window of its first signature
CrawlDoneInTime ==
  pc = "done" /\ clockMs \div MsPerSec < ValidityWindow
PatternOf(path) == CHOOSE i \in 1..Len(Patterns) : Patterns[i] = path
CrawlOutcomes ==
  CrawlDoneInTime
  => /\ ~crawlErr
     /\ requested = AllPatterns
     /\ log[PatternOf("/no-payment-required")] = "access granted"
     /\ log[PatternOf("/payment-required")] = "access denied"
     /\ log[PatternOf("/payment-required/too-expensive")] = "access denied"
     /\ log[PatternOf("/payment-required/low-price")] = "access granted"
     /\ Len(issued) = 1

\* C18: a crawl against the content server ends with /no-payment-required
\* accessible, /payment-required and /payment-required/too-expensive denied
\* and /payment-required/low-price accessible, after one settlement; the
\* only settlement request of the run is sent for /payment-required/low-price.
C18_FullCrawlOutcomes ==
  /\ []CrawlOutcomes
  /\ [][hpFetches' > hpFetches =>
          /\ pc = "pay"
          /\ Patterns[idx] = "/payment-required/low-price"
          /\ offer.amount = Amt(10)
          /\ hpFetches' = 1]_vars

C18_Witness ==
  /\ CrawlDoneInTime
  /\ clockMs > 0
  /\ log[PatternOf("/payment-required/low-price")] = "access granted"
  /\ log[PatternOf("/payment-required/too-expensive")] = "access denied"
  /\ Len(issued) = 1

\* ---- the payment terms of a response
TermHeaders ==
  {"payment-required", "payment-required-amount",
   "payment-required-currency", "payment-required-description"}
\* the payment-term headers the response carries
TermsCarried ==
  {n \in TermHeaders : HasHeader(resp.r.headers, n)}
HandledPath == URLParse(req.url).pathname
\* the response offers that amount in USD
Offers_USD(amount) ==
  /\ TermsCarried = TermHeaders
  /\ extractHeader(resp.r.headers, "payment-required") = Str("true")
  /\ extractHeader(resp.r.headers, "payment-required-amount") = Num(amount)
  /\ extractHeader(resp.r.headers, "payment-required-currency") = Str("USD")
  /\ extractHeader(resp.r.headers, "payment-required-description").txt # ""

\* C19: a successful response carries all four payment-term headers, with
\* Payment-Required: true, or none of them; the offer depends on the
\* resource alone: none for /no-payment-required, 100 USD for
\* /payment-required, 10 USD for /payment-required/low-price and 1000 USD
\* for /payment-required/too-expensive.
C19_OfferFixedPerResource ==
  (Handled /\ resp.r.ok)
  => /\ TermsCarried \in {{}, TermHeaders}
     /\ TermsCarried = TermHeaders
          => extractHeader(resp.r.headers, "payment-required") = Str("true")
     /\ HandledPath = "/no-payment-required" => TermsCarried = {}
     /\ HandledPath = "/payment-required" => Offers_USD(100)
     /\ HandledPath = "/payment-required/low-price" => Offers_USD(10)
     /\ HandledPath = "/payment-required/too-expensive" => Offers_USD(1000)
     /\ resp.r.headers = RouteHeaders(resp.r.handler)

C19_Witness ==
  /\ Handled
  /\ resp.r.ok
  /\ altered
  /\ resp.at > orig.atMs
  /\ HandledPath = "/payment-required/low-price"
  /\ Offers_USD(10)

\* ---- the rejection at the request boundary
FailureSubkinds ==
  {ErrInputMissing, ErrSignatureMissing, ErrVerificationError, ErrExpired,
   ErrVerificationFailed}
VerificationFailedAs(subkind) ==
  /\ Handled
  /\ ~resp.r.verification.isValid
  /\ resp.r.verification.error = subkind

\* C20: a request whose verification failed, whatever the failure, is
\* answered 401 without the route handler being run: no payment terms, no
\* settlement, no transaction id; the failure only shows in the result kept
\* for diagnosis.
C20_FailuresCollapse ==
  (Handled /\ ~resp.r.verification.isValid)
  => /\ resp.r.verification.error \in FailureSubkinds
     /\ resp.r = Response(401, resp.r.verification, "none", <<>>, "json",
                          FALSE, NoTx, NoBody)
     /\ ~resp.r.ok

C20_Witness ==
  /\ VerificationFailedAs(ErrVerificationError)
  /\ IsSettlementRequest
  /\ req.body.kind = "json"
  /\ resp.r.status = 401
  /\ issued = <<>>

\* ---- the shape of a VerificationResult
\* the declaration of req names that parameter
DeclaresParam(name) ==
  /\ extractHeader(req.headers, "signature-input").kind = "decl"
  /\ \E i \in 1..Len(extractHeader(req.headers, "signature-input").params) :
       extractHeader(req.headers, "signature-input").params[i].name = name
ValidShape(v) ==
  /\ v.isValid
  /\ v.keyId # Undefined
  /\ v.algorithm # "<undefined>"
  /\ v.error = "<undefined>"
InvalidShape(v) ==
  /\ ~v.isValid
  /\ v.error # "<undefined>"
  /\ v.keyId = Undefined
  /\ v.algorithm = "<undefined>"

\* C21: a verification result is either valid with a keyId and an algorithm
\* and no error, or invalid with an error and neither keyId nor algorithm; a
\* request whose declaration lacks keyid or created is never valid.
C21_ResultShape ==
  Handled
  => /\ ValidShape(resp.r.verification) \/ InvalidShape(resp.r.verification)
     /\ resp.r.verification.isValid
          => DeclaresParam("keyid") /\ DeclaresParam("created")

\* ---- the outcome recorded for a resource
Processed == {i \in 1..Len(Patterns) : cause[i] # "none"}
DeniedRecords == {"access denied", "request failed"}

\* C22: every processed resource has one outcome recorded; the outcome
\* recorded for a resource denied by policy differs from the one recorded
\* for a resource denied by a failed settlement, and both deny access.
C22_OutcomeDistinguishesCause ==
  /\ \A i \in Processed : log[i] # "none"
  /\ \A i, j \in Processed :
       (cause[i] = "policy" /\ cause[j] \in {"negotiator", "transport"})
       => /\ log[i] \in DeniedRecords
          /\ log[j] \in DeniedRecords
          /\ log[i] # log[j]

\* ---- the settlement endpoint
\* req is a settlement request as its client signed it, handled inside the
\* validity window by the holder of the matching public key
CorrectlySignedSettlement ==
  /\ Handled
  /\ orig.signed
  /\ ~altered
  /\ PublicOf(orig.key) = ServerPublicKey
  /\ HandledSec < CreatedSec + ValidityWindow
  /\ IsSettlementRequest

\* C23: a correctly signed settlement request whose body is not JSON is
\* answered 500 with success = false and no transaction id; one whose body
\* is well formed is answered with success = true, a transaction id and the
\* amount and currency of its body.
C23_SettlementAnswers ==
  CorrectlySignedSettlement
  => /\ req.body.kind # "json"
          => /\ resp.r.status = 500
             /\ ~resp.r.success
             /\ resp.r.txId = NoTx
             /\ resp.r.echo = NoBody
             /\ \A i \in 1..Len(issued) : issued[i] # Tx(resp.at)
     /\ req.body.kind = "json"
          => /\ resp.r.status = 200
             /\ resp.r.success
             /\ resp.r.txId # NoTx
             /\ resp.r.txId \in {issued[i] : i \in 1..Len(issued)}
             /\ resp.r.echo.amount = req.body.amount
             /\ resp.r.echo.currency = req.body.currency

C23_Witness ==
  /\ CorrectlySignedSettlement
  /\ req.body = InvalidBody
  /\ resp.r.status = 500
  /\ resp.r.handler = "/payment-process"
  /\ issued = <<>>

\* ---- the ceiling over a sequence of decisions
\* the amount is one the ceiling check lets through
WithinCeiling ==
  /\ NumberAmount
  /\ offer.amount.n # 0
  /\ offer.amount.n <= maxPayment

\* C24: whatever was decided and settled before, handlePayment sends a
\* settlement request exactly for the offers that require payment of an
\* amount within the ceiling of 50, and accepts when the settlement
\* succeeds, also when the amounts settled so far add up to more than 50.
C24_CeilingStateless ==
  hp = "returned"
  => /\ (hpFetches = 1) = (offer.required /\ WithinCeiling)
     /\ hpFetches \in {0, 1}
     /\ (offer.required /\ WithinCeiling /\ SettlementSucceeded
         /\ payResp.body = "json")
          => hpRet = "true"
     /\ (offer.required /\ ~WithinCeiling) => hpRet = "false"

C24_Witness ==
  /\ Accepted
  /\ offer.required
  /\ offer.amount = Amt(50)
  /\ Len(settled) = 2
  /\ settled[1] > 0
  /\ Total(settled) > maxPayment
  /\ Len(issued) = 2

\* ---- the @authority of the two sides
\* the @authority the composer put into the token of the signed request
ComposerAuthority ==
  Base64Decode(SignedSignature.art).payload.claims.authority
\* the @authority line the verifier builds for the URL that was signed
VerifierAuthority ==
  ComponentValue([method |-> orig.method, url |-> orig.url,
                  headers |-> orig.headers], "@authority").v

\* C25: for the URL of every signed request the @authority computed by
\* createSignature equals the @authority computed by buildSignedData: the
\* port is left out only when it is the default port of the URL's scheme.
C25_AuthorityAgrees ==
  orig.signed
  => /\ ComposerAuthority = VerifierAuthority
     /\ VerifierAuthority.port
          = (IF orig.url.port = DefaultPort(orig.url.scheme)
               THEN 0 ELSE orig.url.port)

\* ---- the created line of the rebuilt canonical base
\* the canonical base verifyRequest builds for req
RebuiltBase ==
  LET request == MiddlewareRequest(req)
      signatureInput == extractHeader(request.headers, "signature-input")
  IN buildSignedData(request, parseSignatureInput(signatureInput).components,
                     signatureInput)
\* the value of its "created" line
RebuiltCreated ==
  RebuiltBase[CHOOSE i \in 1..Len(RebuiltBase) :
                RebuiltBase[i].name = "created"].value.v
DeclaredCreated ==
  parseSignatureInput(extractHeader(req.headers, "signature-input"))
    .parameters["created"]

\* C26: for a request sent as it was signed, the created line of the base
\* the verifier rebuilds carries the created parameter of the declaration,
\* which is the created second the composer signed.
C26_CreatedFromDeclaration ==
  (Handled /\ orig.signed /\ ~altered)
  => /\ DeclaredCreated = Num(CreatedSec)
     /\ RebuiltCreated = DeclaredCreated

\* ---- the order of the steps of verifyRequest
\* what each step finds wrong with req, told from req alone
DeclarationAbsent == ~HasHeader(req.headers, "signature-input")
SignatureAbsent == ~HasHeader(req.headers, "signature")
DeclarationUnparsable ==
  /\ ~DeclarationAbsent
  /\ extractHeader(req.headers, "signature-input").kind # "decl"
SignatureUnparsable ==
  /\ ~SignatureAbsent
  /\ extractHeader(req.headers, "signature").kind # "sigval"
ExpiresDeclared ==
  /\ ~DeclarationAbsent
  /\ ~DeclarationUnparsable
  /\ \E i \in 1..Len(extractHeader(req.headers, "signature-input").params) :
       LET prm == extractHeader(req.headers, "signature-input").params[i]
       IN prm.name = "expires" /\ prm.val.isnum
ExpiresPassed == ExpiresDeclared /\ HandledSec > ExpiresSec
TokenRejected ==
  /\ ~SignatureAbsent
  /\ ~SignatureUnparsable
  /\ ~ArtifactVerifies
\* the steps req fails
FailedSteps ==
  {n \in 1..6 :
     \/ n = 1 /\ DeclarationAbsent
     \/ n = 2 /\ SignatureAbsent
     \/ n = 3 /\ DeclarationUnparsable
     \/ n = 4 /\ SignatureUnparsable
     \/ n = 5 /\ ExpiresPassed
     \/ n = 6 /\ TokenRejected}
StepError(n) ==
  CASE n = 1 -> ErrInputMissing
    [] n = 2 -> ErrSignatureMissing
    [] n = 3 -> ErrVerificationError
    [] n = 4 -> ErrVerificationError
    [] n = 5 -> ErrExpired
    [] OTHER -> ErrVerificationFailed
StepDetail(n) ==
  CASE n = 3 -> "Error: Invalid Signature-Input format"
    [] n = 4 -> "Error: Invalid Signature format"
    [] OTHER -> ""
EarliestFailedStep == CHOOSE n \in FailedSteps : \A m \in FailedSteps : n <= m

SettlementToken ==
  Base64Decode(extractHeader(payReq.headers, "signature").art)
SettlementDeclaredCreated ==
  parseSignatureInput(extractHeader(payReq.headers, "signature-input"))
    .parameters["created"]

\* C28: in the settlement request handlePayment sends, the created of the
\* Signature-Input header is the creation time inside the token of the
\* Signature header, whatever the clock does while the request is built.
C28_SettlementHeadersFromOneSigning ==
  payReq # NoRequest
  => /\ SettlementDeclaredCreated = Num(SettlementToken.payload.claims.created)
     /\ SettlementDeclaredCreated = Num(SettlementToken.payload.iat)

\* ---- the declared keyid
KeyIdValues ==
  {Quoted(Str(CrawlerKeyId)), Quoted(Str("other-key-id")), Str("k"),
   Quoted(Str(""))}
\* req with the keyid of its declaration replaced
WithKeyId(keyid) ==
  [method |-> req.method, url |-> req.url,
   headers |->
     SetHeader(req.headers, "signature-input",
               SetParam(extractHeader(req.headers, "signature-input"),
                        "keyid", keyid))]
DeclaredKeyId ==
  LET params == extractHeader(req.headers, "signature-input").params
  IN params[CHOOSE i \in 1..Len(params) : params[i].name = "keyid"].val

\* C29: whether a request is valid does not depend on the keyid its
\* declaration names: the request with any other keyid gets the same
\* isValid; the keyid only comes back as the keyId of a valid result.
C29_KeyIdOnlyEchoed ==
  (Handled /\ DeclaresParam("keyid"))
  => /\ \A k \in KeyIdValues :
          LET v == verifyRequest(MiddlewareRequest(WithKeyId(k)), resp.at)
          IN /\ v.isValid = resp.r.verification.isValid
             /\ v.isValid => v.keyId = StripQuotes(k)
             /\ ~v.isValid => v = resp.r.verification
     /\ resp.r.verification.isValid
          => resp.r.verification.keyId.txt = DeclaredKeyId.txt

C29_Witness ==
  /\ Handled
  /\ orig.signed
  /\ altered
  /\ DeclaresParam("keyid")
  /\ DeclaredKeyId = Quoted(Str("other-key-id"))
  /\ resp.r.verification = Valid(Str("other-key-id"), "Ed25519")

\* ---- what an unverified request gets to see
\* C30: the response to a request whose verification failed carries no
\* Payment-Required* header and no page, on every route.
C30_NoTermsWithoutVerification ==
  (Handled /\ ~verifyRequest(MiddlewareRequest(req), resp.at).isValid)
  => /\ TermsCarried = {}
     /\ \A i \in 1..Len(resp.r.headers) :
          Lower(resp.r.headers[i].name) \notin TermHeaders
     /\ resp.r.body # "html"
     /\ resp.r.handler \notin ContentRoutes

C30_Witness ==
  /\ Handled
  /\ ~orig.signed
  /\ req.method = "GET"
  /\ HandledPath = "/payment-required/low-price"
  /\ resp.r.status = 401
  /\ resp.r.headers = <<>>
  /\ resp.r.body = "json"

\* ---- an offer without a usable amount
\* payment is required and the amount is absent, not a number, or zero
UnusableAmount ==
  /\ offer.required
  /\ \/ ~offer.amount.def
     \/ offer.amount.nan
     \/ offer.amount.n = 0

\* C31: handlePayment on an offer that requires payment and whose amount is
\* absent, zero or not a number returns false and sends no settlement
\* request.
C31_UnusableAmountRejects ==
  (pc = "pay" /\ UnusableAmount)
  => /\ hpFetches = 0
     /\ inflight = NoRequest
     /\ hp \in {"entry", "returned"}
     /\ hp = "returned" => hpRet = "false" /\ DecisionCause = "policy"

C31_Witness ==
  /\ pc = "pay"
  /\ hp = "returned"
  /\ offer.required
  /\ offer.amount = NaN
  /\ hpRet = "false"
  /\ hpFetches = 0

\* ---- the listing request fails
\* the listing request has been answered, and it failed
ListingAnsweredFailed ==
  /\ pc = "root"
  /\ inbox # Pending
  /\ (inbox = FetchThrown \/ ~inbox.ok)
\* nothing was fetched beyond the listing
NothingRequested ==
  /\ requested = {}
  /\ hpFetches = 0
  /\ payReq = NoRequest
  /\ settled = <<>>
  /\ \A i \in AllPatterns : log[i] = "none"
CrawlPositions == {"idle", "root", "next", "resource", "pay", "done"}

\* C32: when the listing request to '/' comes back not OK or its fetch is
\* rejected, the next step of crawlPatterns is its end: no resource was or is
\* requested, no settlement request was or is sent, and the error is caught.
\* crawlPatterns never leaves through a rejection: every position it reaches
\* is one of the crawl or its normal completion.
C32_ListingFailureEndsCrawl ==
  /\ [](pc \in CrawlPositions)
  /\ [][ListingAnsweredFailed
        => /\ pc' \in {"root", "done"}
           /\ pc' = "done" => crawlErr' /\ idx' = 0 /\ inflight' = NoRequest
           /\ NothingRequested /\ NothingRequested']_vars
  /\ []((pc = "done" /\ ~ListingSucceeded) => NothingRequested /\ crawlErr)

C32_Witness ==
  /\ pc = "done"
  /\ ~ListingSucceeded
  /\ crawlErr
  /\ NothingRequested
  /\ inflight = NoRequest

\* ---- verifyRequest is total
ResultErrors ==
  {ErrInputMissing, ErrSignatureMissing, ErrExpired, ErrVerificationFailed,
   ErrVerificationError}
\* a VerificationResult: isValid, with an error of verifyRequest's own when
\* it is false
IsVerificationResult(v) ==
  /\ v.isValid \in BOOLEAN
  /\ v.isValid => v.error = "<undefined>"
  /\ ~v.isValid => v.error \in ResultErrors
UnparsableUrl == req.url = BadUrl

\* C33: verifyRequest returns a VerificationResult for every request,
\* whatever its method, its URL (an unparsable string included) and its
\* headers, and never throws: an invalid result is answered 401, and a 500
\* never comes from the middleware, only from a handler behind a valid
\* verification.
C33_VerifyRequestTotal ==
  Handled
  => /\ IsVerificationResult(resp.r.verification)
     /\ ~resp.r.verification.isValid
        => resp.r.status = 401 /\ resp.r.handler = "none"
     /\ resp.r.status = 500
        => resp.r.verification.isValid /\ resp.r.handler # "none"

C33_Witness ==
  /\ Handled
  /\ UnparsableUrl
  /\ orig.signed
  /\ resp.r.status = 401
  /\ resp.r.verification.error = ErrVerificationError
  /\ resp.r.verification.detail = "TypeError: Invalid URL"
====
